---- MODULE Spec2Model ----
(***************************************************************************)
(* A model of the test-splitter client: plan acquisition                   *)
(* (fetchOrCreateTestPlan over the retrying API calls), the fallback       *)
(* planner, and the supervisor of the primary test command and its         *)
(* bounded retry loop.                                                     *)
(*                                                                         *)
(* The repository holds two generations of the main flow, and the model    *)
(* carries both, selected by the variable variant:                         *)
(*   "part_000"  src/unnamed/part_000 (handleError / ErrRetryTimeout,      *)
(*               timeline, metadata report)                                *)
(*   "part_001"  src/unnamed/part_001 (70 s fetchCtx, fallback on          *)
(*               context.DeadlineExceeded only)                            *)
(* The retrying network call is src/internal/api/fetch_plan.go.            *)
(***************************************************************************)
EXTENDS Integers, Sequences, FiniteSets, Bags, TLC

\* ------------------------------------------------------------------ bounds
MaxFiles == 2
MaxParallelism == 2
MaxRetriesCfg == 2
\* bounds of the fallback planner's own specification
MaxFallbackLen == 3
MaxFallbackParallelism == 3

\* ------------------------------------------------------- program constants
retryMaxAttempts == 5
InternalErrorCode == 16

\* ------------------------------------------------------------- basic values
Variants == {"part_000", "part_001"}

FileNames == <<"a_spec.rb", "b_spec.rb", "c_spec.rb", "d_spec.rb">>

\* the files GetFiles discovered: the first k names, in discovery order
DiscoveredFiles(k) == SubSeq(FileNames, 1, k)

Digits == <<"0", "1", "2", "3", "4", "5", "6", "7", "8", "9">>

\* strconv.Itoa on the small non-negative numbers the model uses
Itoa(i) == IF i < 10 THEN Digits[i + 1] ELSE Digits[(i \div 10) + 1] \o Digits[(i % 10) + 1]

\* an error value is the set of sentinels errors.Is finds in its chain, with
\* "error" in every non-nil error; nil is the empty set
NilErr == {}
PlainErr == {"error"}
ErrInvalidRequest == {"error", "invalid"}
ErrDeadlineExceeded == {"error", "deadline"}

IsNil(err) == err = {}
ErrorsIs(err, sentinel) == sentinel \in err

\* ------------------------------------------------------------------- plans
\* plan.TestPlan: Tasks maps strconv.Itoa(node) to the node's ordered tests
TestCase(f) == [Path |-> f]
EmptyTasks == [k \in {} |-> <<>>]
EmptyPlan == [tasks |-> EmptyTasks]

RECURSIVE Reverse(_)
Reverse(s) == IF s = <<>> THEN <<>> ELSE Append(Reverse(Tail(s)), Head(s))

\* the tests at positions p of files with (p - 1) % n = i, in order
RECURSIVE Bucket(_, _, _, _)
Bucket(fs, n, i, p) ==
    IF p > Len(fs) THEN <<>>
    ELSE IF (p - 1) % n = i THEN <<TestCase(fs[p])>> \o Bucket(fs, n, i, p + 1)
    ELSE Bucket(fs, n, i, p + 1)

\* mutant: the distribution starts at the second file
CreateFallbackPlanSkipFirst(fs, n) ==
    [tasks |-> [k \in {Itoa(i) : i \in 0..(n - 1)} |->
        LET i == CHOOSE j \in 0..(n - 1) : Itoa(j) = k
        IN Bucket(fs, n, i, 2)]]

\* plan.CreateFallbackPlan(files, parallelism): a balanced partition of the
\* files, in discovery order, into parallelism tasks keyed "0".."N-1"
CreateFallbackPlan(fs, n) ==
    [tasks |-> [k \in {Itoa(i) : i \in 0..(n - 1)} |->
        LET i == CHOOSE j \in 0..(n - 1) : Itoa(j) = k
        IN Bucket(fs, n, i, 1)]]

\* what the planning service may answer for these files: the error plan, a
\* full plan that differs from the fallback, and a plan holding node 0 only
ServerPlans(fs, n) ==
    { EmptyPlan,
      CreateFallbackPlan(Reverse(fs), n),
      [tasks |-> [k \in {"0"} |-> [p \in 1..Len(fs) |-> TestCase(fs[p])]]] }


\* ------------------------------------------------- the retrying API call
\* one HTTP exchange as tryFetchTestPlan sees it: the connection fails, the
\* 15 s per-attempt context expires, or a response with a status and a body
Statuses == {200, 302, 400, 500}

Responses(fs, n) ==
    { [kind |-> "conn", status |-> 0, parses |-> FALSE, plan |-> EmptyPlan],
      [kind |-> "timeout", status |-> 0, parses |-> FALSE, plan |-> EmptyPlan] }
    \cup { [kind |-> "http", status |-> st, parses |-> FALSE, plan |-> EmptyPlan] :
             st \in Statuses }
    \cup { [kind |-> "http", status |-> st, parses |-> TRUE, plan |-> p] :
             st \in Statuses, p \in ServerPlans(fs, n) }

Is4xx(resp) == resp.kind = "http" /\ resp.status >= 400 /\ resp.status < 500
Is5xx(resp) == resp.kind = "http" /\ resp.status >= 500 /\ resp.status < 600

\* read and parse the response body (fetch_plan.go:113-126)
ReadBody(resp) ==
    IF resp.parses
    THEN [plan |-> resp.plan, err |-> NilErr]
    ELSE [plan |-> EmptyPlan, err |-> PlainErr]

\* tryFetchTestPlan: one attempt, classified by the status switch
tryFetchTestPlan(resp) ==
    IF resp.kind = "conn" THEN [plan |-> EmptyPlan, err |-> PlainErr]
    ELSE IF resp.kind = "timeout" THEN [plan |-> EmptyPlan, err |-> ErrDeadlineExceeded]
    ELSE IF resp.status = 200 THEN ReadBody(resp)
    ELSE IF resp.status >= 400 /\ resp.status < 500
         THEN [plan |-> EmptyPlan, err |-> ErrInvalidRequest]
    ELSE IF resp.status >= 500 /\ resp.status < 600
         THEN [plan |-> EmptyPlan, err |-> PlainErr]
    ELSE ReadBody(resp)

\* mutant: the callback never breaks the retrier
ShouldBreakNever(err) == FALSE

\* the callback's r.Break(): "Don't retry if the request was invalid"
ShouldBreak(err) == ErrorsIs(err, "invalid")

\* mutant: the retrier gives up one attempt early
ShouldGiveUpEarly(count, broken) == broken \/ count >= retryMaxAttempts - 1

\* roko's ShouldGiveUp after MarkAttempt: a manual break, or the attempt cap
ShouldGiveUp(count, broken) == broken \/ count >= retryMaxAttempts

\* FetchTestPlan's tail: err != nil && r.AttemptCount() == retryMaxAttempts
WrapRetryLimit(err, count) ==
    IF ~IsNil(err) /\ count = retryMaxAttempts THEN err \cup {"limit"} ELSE err

\* one turn of roko.DoFunc's loop around tryFetchTestPlan, and FetchTestPlan's
\* return when the loop ends: count and broken are the retrier's state
RetrierStep(count, broken, resp) ==
    LET res == tryFetchTestPlan(resp)
        broken2 == broken \/ ShouldBreak(res.err)
        count2 == IF IsNil(res.err) THEN count ELSE count + 1
        done == IsNil(res.err) \/ ShouldGiveUp(count2, broken2)
    IN [attemptCount |-> count2, manualBreak |-> broken2, done |-> done,
        plan |-> res.plan, err |-> WrapRetryLimit(res.err, count2)]

\* api.ErrRetryTimeout as the client reports it: the attempts are exhausted,
\* or the deadline of the call's context has passed
ClientError(err) ==
    IF ErrorsIs(err, "limit") \/ ErrorsIs(err, "deadline")
    THEN err \cup {"timeout"} ELSE err


\* -------------------------------------------------------------------- state
VARIABLES
    variant,         \* which generation of main / fetchOrCreateTestPlan runs
    cfg,             \* config.Config: Parallelism, NodeIndex, MaxRetries, SplitByExample
    files,           \* testRunner.GetFiles()
    pc,              \* position of the main flow
    attemptCount,    \* roko Retrier: r.AttemptCount() of the call in progress
    manualBreak,     \* roko Retrier: r.Break() was called
    netAttempts,     \* per call ("fetch", "create"): network attempts made
    only5xx,         \* per call: every response so far was in the 5xx class
    got4xx,          \* per call: a response in the 4xx class was received
    callErr,         \* fetchOrCreateTestPlan's err: the error of its last step
    cachedPlan,      \* *plan.TestPlan of the fetch: found = FALSE is nil
    createdPlan,     \* plan.TestPlan of the create call
    timingRequests,  \* FetchFilesTiming requests issued
    exampleListings, \* GetExamples invocations
    params,          \* api.TestPlanParams built by createRequestParam
    testPlan,        \* fetchOrCreateTestPlan's returned plan
    planErr,         \* fetchOrCreateTestPlan's returned error
    usedFallback,    \* the returned plan was computed by CreateFallbackPlan
    runnableTests,   \* the test list handed to testRunner.Command
    timeline,        \* []api.Timeline, by event label
    childStarts,     \* child test processes started so far
    exited,          \* the supervisor process has exited
    exitCode,        \* the code it exited with
    retries,         \* retryFailedTests: the attempt counter
    retryEntered,    \* retryFailedTests was called
    primaryExit,     \* how cmd.Wait() of the primary command ended
    metadataSent,    \* sendMetadata calls made
    reported,        \* the timeline of the last metadata report
    finishClosed,    \* close(finishCh) calls made
    exitMessage,     \* what logErrorAndExit printed, "" when it was not called
    retryExits,      \* how cmd.Wait() of each retry attempt ended, in order
    versionFlag,     \* *versionFlag: --version was given
    configErr,       \* config.New() fails
    getFilesErr,     \* testRunner.GetFiles() fails
    versionPrinted,  \* fmt.Println(Version) was executed
    forwarder,       \* where the signal-forwarding goroutine is
    sigCh,           \* the buffered channel signal.Notify delivers to
    sigSent,         \* signals delivered to the supervisor so far, numbered 1..
    sigDuring,       \* those delivered while the primary child was running
    forwardedSigs,   \* those passed to cmd.Process.Signal
    uncaughtSigs,    \* those that arrived while no channel was notified
    droppedSigs,     \* those that found sigCh full
    template,        \* a runner command template, as its characters
    identifiers,     \* the test identifiers or failed names to render
    resultPath,      \* RunnerConfig.ResultPath
    rendered,        \* what commandNameAndArgs / retryCommandNameAndArgs gave
    timings,         \* createRequestParam: the answer of FetchFilesTiming
    slowFiles,       \* createRequestParam: the files handed to GetExamples
    lastResp,        \* FetchTestPlan alone: the HTTP exchange of the last attempt
    tryResult,       \* FetchTestPlan alone: what tryFetchTestPlan returned for it
    fetchResult      \* FetchTestPlan alone: what FetchTestPlan returned

cfgVars == <<variant, cfg, files>>
callVars == <<attemptCount, manualBreak, netAttempts, only5xx, got4xx, callErr>>
planVars == <<cachedPlan, createdPlan, timingRequests, exampleListings, params,
              testPlan, planErr, usedFallback>>
runVars == <<runnableTests, timeline, childStarts, exited, exitCode>>
retryVars == <<retries, retryEntered, primaryExit, metadataSent, reported, finishClosed>>
startVars == <<versionFlag, configErr, getFilesErr, versionPrinted>>
sigVars == <<forwarder, sigCh, sigSent, sigDuring, forwardedSigs, uncaughtSigs, droppedSigs>>
renderVars == <<template, identifiers, resultPath, rendered>>
paramVars == <<timings, slowFiles>>
fetchVars == <<lastResp, tryResult, fetchResult>>
otherVars == <<startVars, sigVars, renderVars, paramVars, fetchVars>>

SlowFileThreshold == 2
Durations == 0..(SlowFileThreshold + 1)

\* how cmd.Wait() ends: nil, an *exec.ExitError with its code, another error
NotWaited == [kind |-> "none", code |-> 0]
ChildExitCodes == {1, 2}
WaitOutcomes ==
    { [kind |-> "ok", code |-> 0], [kind |-> "waiterr", code |-> 0] }
    \cup { [kind |-> "exit", code |-> c] : c \in ChildExitCodes }

Calls == {"fetch", "create"}

NoParams == [files |-> <<>>, examples |-> <<>>]
NoCached == [found |-> FALSE, tasks |-> EmptyTasks]

Configs ==
    [Parallelism : 1..MaxParallelism, NodeIndex : 0..(MaxParallelism - 1),
     MaxRetries : 0..MaxRetriesCfg, SplitByExample : BOOLEAN]

\* no signal has been delivered and the forwarding goroutine does not exist
NoSignals ==
    /\ forwarder = "none"
    /\ sigCh = <<>>
    /\ sigSent = 0
    /\ sigDuring = {}
    /\ forwardedSigs = {}
    /\ uncaughtSigs = {}
    /\ droppedSigs = {}

\* no command template is being rendered
NoRender ==
    /\ template = <<>>
    /\ identifiers = <<>>
    /\ resultPath = <<>>
    /\ rendered = [call |-> "none"]

\* FetchTestPlan has made no attempt
NoResponse == [kind |-> "none", status |-> 0, parses |-> FALSE, plan |-> EmptyPlan]
NoResult == [plan |-> EmptyPlan, err |-> NilErr]

NoFetchCall ==
    /\ lastResp = NoResponse
    /\ tryResult = NoResult
    /\ fetchResult = NoResult

\* createRequestParam has not run
NoRequestParam ==
    /\ timings = <<>>
    /\ slowFiles = <<>>

\* main got past configuration, the version flag and file discovery
Started ==
    /\ versionFlag = FALSE
    /\ configErr = FALSE
    /\ getFilesErr = FALSE
    /\ versionPrinted = FALSE
    /\ exitMessage = ""
    /\ retryExits = <<>>

\* the values config.New() and testRunner.GetFiles() give when they succeed,
\* and everything that main has not touched yet
ProgramStart ==
    /\ NoSignals
    /\ NoFetchCall
    /\ NoRender
    /\ variant \in Variants
    /\ cfg \in {c \in Configs : c.NodeIndex < c.Parallelism}
    /\ files \in {DiscoveredFiles(k) : k \in 0..MaxFiles}
    /\ attemptCount = 0
    /\ manualBreak = FALSE
    /\ netAttempts = [c \in Calls |-> 0]
    /\ only5xx = [c \in Calls |-> TRUE]
    /\ got4xx = [c \in Calls |-> FALSE]
    /\ callErr = NilErr
    /\ cachedPlan = NoCached
    /\ createdPlan = EmptyPlan
    /\ timingRequests = 0
    /\ exampleListings = 0
    /\ params = NoParams
    /\ testPlan = EmptyPlan
    /\ planErr = NilErr
    /\ usedFallback = FALSE
    /\ runnableTests = <<>>
    /\ timeline = <<>>
    /\ childStarts = 0
    /\ exited = FALSE
    /\ exitCode = 0
    /\ retries = 0
    /\ retryEntered = FALSE
    /\ primaryExit = NotWaited
    /\ metadataSent = 0
    /\ reported = <<>>
    /\ finishClosed = 0

\* the state when fetchOrCreateTestPlan is entered
InitAcquire ==
    /\ Started
    /\ NoRequestParam
    /\ pc = "fetch"
    /\ ProgramStart

\* the error of a finished call as the caller sees it: part_000 tests it
\* against api.ErrRetryTimeout, part_001 against context.DeadlineExceeded
ReportedErr(err) == IF variant = "part_000" THEN ClientError(err) ELSE err

\* one network attempt of a call through the retrier; at is the pc of the call
\* in progress and after the pc once it has returned
CallAttempt(call, resp, after) ==
    LET r == RetrierStep(attemptCount, manualBreak, resp)
    IN /\ netAttempts' = [netAttempts EXCEPT ![call] = @ + 1]
       /\ only5xx' = [only5xx EXCEPT ![call] = @ /\ Is5xx(resp)]
       /\ got4xx' = [got4xx EXCEPT ![call] = @ \/ Is4xx(resp)]
       /\ attemptCount' = r.attemptCount
       /\ manualBreak' = r.manualBreak
       /\ IF r.done
          THEN /\ callErr' = ReportedErr(r.err)
               /\ pc' = after
               /\ IF call = "fetch"
                  THEN /\ cachedPlan' = IF IsNil(r.err)
                                        THEN [found |-> TRUE, tasks |-> r.plan.tasks]
                                        ELSE NoCached
                       /\ UNCHANGED createdPlan
                  ELSE /\ createdPlan' = r.plan
                       /\ UNCHANGED cachedPlan
          ELSE UNCHANGED <<callErr, pc, cachedPlan, createdPlan>>

\* apiClient.FetchTestPlan: one attempt at the cached plan
FetchTestPlanAttempt ==
    /\ pc = "fetch"
    /\ \E resp \in Responses(files, cfg.Parallelism) :
         CallAttempt("fetch", resp, "fetched")
    /\ UNCHANGED <<otherVars, exitMessage, retryExits, cfgVars, timingRequests, exampleListings, params, testPlan,
                   planErr, usedFallback, runVars, retryVars>>

\* apiClient.FetchTestPlan: the service holds no plan for this identifier,
\* and the call returns a nil plan and no error
FetchTestPlanNotFound ==
    /\ pc = "fetch"
    /\ netAttempts' = [netAttempts EXCEPT !["fetch"] = @ + 1]
    /\ only5xx' = [only5xx EXCEPT !["fetch"] = FALSE]
    /\ UNCHANGED got4xx
    /\ cachedPlan' = NoCached
    /\ callErr' = NilErr
    /\ pc' = "fetched"
    /\ UNCHANGED <<otherVars, exitMessage, retryExits, cfgVars, attemptCount, manualBreak, createdPlan, timingRequests,
                   exampleListings, params, testPlan, planErr, usedFallback, runVars, retryVars>>


\* --------------------------------------------- fetchOrCreateTestPlan, part_000
\* p := plan.CreateFallbackPlan(files, cfg.Parallelism); return p, nil
Fallback(fs, n) == [plan |-> CreateFallbackPlan(fs, n), err |-> NilErr, fallback |-> TRUE]
\* mutant: the error is dropped and the empty plan returned as a success
FailureSwallowed(err) == [plan |-> EmptyPlan, err |-> NilErr, fallback |-> FALSE]

\* return plan.TestPlan{}, err
Failure(err) == [plan |-> EmptyPlan, err |-> err, fallback |-> FALSE]
\* return the plan, nil
Success(p) == [plan |-> p, err |-> NilErr, fallback |-> FALSE]

\* mutant: every error falls back
handleErrorAlwaysFallback(err, fs, n) == Fallback(fs, n)

\* the handleError closure: the fallback plan on api.ErrRetryTimeout, the
\* error with an empty plan otherwise
handleError(err, fs, n) ==
    IF ErrorsIs(err, "timeout") THEN Fallback(fs, n) ELSE Failure(err)

\* mutant: a cached plan is never trusted
CachedPlanResultIgnored(cached, fs, n) == Fallback(fs, n)

\* the cachedPlan != nil branch: an "error" plan (no tasks) becomes the
\* fallback plan, any other cached plan is returned
CachedPlanResult(cached, fs, n) ==
    IF DOMAIN cached.tasks = {} THEN Fallback(fs, n)
    ELSE Success([tasks |-> cached.tasks])

\* the tail of fetchOrCreateTestPlan: a created "error" plan becomes the
\* fallback plan
CreatedPlanResult(created, fs, n) ==
    IF DOMAIN created.tasks = {} THEN Fallback(fs, n) ELSE Success(created)

\* fetchOrCreateTestPlan returns
Return(r) ==
    /\ testPlan' = r.plan
    /\ planErr' = r.err
    /\ usedFallback' = r.fallback
    /\ pc' = "returned"

\* after apiClient.FetchTestPlan returned (part_000:234-251)
FetchReturned ==
    /\ pc = "fetched"
    /\ variant = "part_000"
    /\ IF ~IsNil(callErr)
       THEN Return(handleError(callErr, files, cfg.Parallelism))
       ELSE IF cachedPlan.found
       THEN Return(CachedPlanResult(cachedPlan, files, cfg.Parallelism))
       ELSE /\ pc' = "params"
            /\ UNCHANGED <<testPlan, planErr, usedFallback>>
    /\ UNCHANGED <<otherVars, exitMessage, retryExits, cfgVars, callVars, cachedPlan, createdPlan, timingRequests,
                   exampleListings, params, runVars, retryVars>>

\* the duration of a file in the timings the server returned: a file with no
\* timing reads as the map's zero value
TimingOf(answer, f) == IF f \in DOMAIN answer THEN answer[f] ELSE 0

Range(s) == {s[i] : i \in 1..Len(s)}

\* what FetchFilesTiming may return for these files
TimingsFor(fs) == UNION { [S -> Durations] : S \in SUBSET Range(fs) }

\* runner.GetExamples: the examples inside the given files, two per file
RECURSIVE ExamplesOf(_)
ExamplesOf(fs) ==
    IF fs = <<>> THEN <<>>
    ELSE <<[path |-> Head(fs), example |-> 1], [path |-> Head(fs), example |-> 2]>>
         \o ExamplesOf(Tail(fs))

TimingErrs == {PlainErr, {"error", "timeout"}}

\* mutant: a file exactly at the threshold is not slow
IsSlowFileStrict(duration, threshold) == duration > threshold

\* "if timing.Duration >= cfg.SlowFileThreshold" (part_000:334)
IsSlowFile(duration, threshold) == duration >= threshold

\* createRequestParam: tErr and answer are FetchFilesTiming's answer, eErr is
\* GetExamples' error; requests and listings count the calls it made and
\* listed is the argument of GetExamples
createRequestParam(c, fs, tErr, answer, eErr) ==
    IF ~c.SplitByExample
    THEN [params |-> [files |-> fs, examples |-> <<>>], err |-> NilErr,
          requests |-> 0, listings |-> 0, listed |-> <<>>]
    ELSE IF ~IsNil(tErr)
    THEN [params |-> NoParams, err |-> tErr, requests |-> 1, listings |-> 0,
          listed |-> <<>>]
    ELSE LET IsSlow(f) == IsSlowFile(TimingOf(answer, f), SlowFileThreshold)
             IsRest(f) == ~IsSlow(f)
             slow == SelectSeq(fs, IsSlow)
             restOfFiles == SelectSeq(fs, IsRest)
         IN IF Len(slow) = 0
            THEN [params |-> [files |-> restOfFiles, examples |-> <<>>],
                  err |-> NilErr, requests |-> 1, listings |-> 0, listed |-> <<>>]
            ELSE IF ~IsNil(eErr)
            THEN [params |-> NoParams, err |-> eErr, requests |-> 1, listings |-> 1,
                  listed |-> slow]
            ELSE [params |-> [files |-> restOfFiles, examples |-> ExamplesOf(slow)],
                  err |-> NilErr, requests |-> 1, listings |-> 1, listed |-> slow]

\* the create request is about to be issued with a fresh retrier
StartCreate ==
    /\ attemptCount' = 0
    /\ manualBreak' = FALSE
    /\ callErr' = NilErr
    /\ pc' = "create"

\* "No test plan found, creating a new plan" (part_000:251-256)
CreateRequestParam ==
    /\ pc = "params"
    /\ \E tErr \in {NilErr} \cup TimingErrs, answer \in TimingsFor(files),
          eErr \in {NilErr, PlainErr} :
         LET r == createRequestParam(cfg, files, tErr, answer, eErr)
         IN /\ timingRequests' = timingRequests + r.requests
            /\ exampleListings' = exampleListings + r.listings
            /\ params' = r.params
            /\ IF ~IsNil(r.err)
               THEN /\ Return(handleError(r.err, files, cfg.Parallelism))
                    /\ callErr' = r.err
                    /\ UNCHANGED <<attemptCount, manualBreak>>
               ELSE /\ StartCreate
                    /\ UNCHANGED <<testPlan, planErr, usedFallback>>
    /\ UNCHANGED <<otherVars, exitMessage, retryExits, cfgVars, netAttempts, only5xx, got4xx, cachedPlan, createdPlan, runVars, retryVars>>

\* apiClient.CreateTestPlan: one attempt at creating the plan
CreateTestPlanAttempt ==
    /\ pc = "create"
    /\ \E resp \in Responses(files, cfg.Parallelism) :
         CallAttempt("create", resp, "created")
    /\ UNCHANGED <<otherVars, exitMessage, retryExits, cfgVars, timingRequests, exampleListings, params, testPlan,
                   planErr, usedFallback, runVars, retryVars>>

\* after apiClient.CreateTestPlan returned (part_000:261-273)
CreateReturned ==
    /\ pc = "created"
    /\ variant = "part_000"
    /\ IF ~IsNil(callErr)
       THEN Return(handleError(callErr, files, cfg.Parallelism))
       ELSE Return(CreatedPlanResult(createdPlan, files, cfg.Parallelism))
    /\ UNCHANGED <<otherVars, exitMessage, retryExits, cfgVars, callVars, cachedPlan, createdPlan, timingRequests,
                   exampleListings, params, runVars, retryVars>>

\* --------------------------------------------- fetchOrCreateTestPlan, part_001
\* after apiClient.FetchTestPlan returned (part_001:182-196): any error is
\* returned, any cached plan is returned, a nil plan starts the create call
FetchReturnedLegacy ==
    /\ pc = "fetched"
    /\ variant = "part_001"
    /\ IF ~IsNil(callErr)
       THEN /\ Return(Failure(callErr))
            /\ UNCHANGED <<attemptCount, manualBreak, callErr, params>>
       ELSE IF cachedPlan.found
       THEN /\ Return(Success([tasks |-> cachedPlan.tasks]))
            /\ UNCHANGED <<attemptCount, manualBreak, callErr, params>>
       ELSE /\ StartCreate
            /\ params' = [files |-> files, examples |-> <<>>]
            /\ UNCHANGED <<testPlan, planErr, usedFallback>>
    /\ UNCHANGED <<otherVars, exitMessage, retryExits, cfgVars, netAttempts, only5xx, got4xx, cachedPlan, createdPlan,
                   timingRequests, exampleListings, runVars, retryVars>>

\* the 70 s fetchCtx passes while the create call waits between attempts:
\* the retrier returns ctx.Err() (part_001:56, fetch_plan.go:59)
CreateDeadlineExceeded ==
    /\ pc = "create"
    /\ variant = "part_001"
    /\ callErr' = WrapRetryLimit(ErrDeadlineExceeded, attemptCount)
    /\ createdPlan' = EmptyPlan
    /\ pc' = "created"
    /\ UNCHANGED <<otherVars, exitMessage, retryExits, cfgVars, attemptCount, manualBreak, netAttempts, only5xx, got4xx,
                   cachedPlan, timingRequests, exampleListings, params, testPlan,
                   planErr, usedFallback, runVars, retryVars>>

\* after apiClient.CreateTestPlan returned (part_001:207-225)
CreateReturnedLegacy ==
    /\ pc = "created"
    /\ variant = "part_001"
    /\ IF ~IsNil(callErr) /\ ~ErrorsIs(callErr, "deadline")
       THEN Return(Failure(callErr))
       ELSE IF ~IsNil(callErr)
       THEN Return(Fallback(files, cfg.Parallelism))
       ELSE Return(CreatedPlanResult(createdPlan, files, cfg.Parallelism))
    /\ UNCHANGED <<otherVars, exitMessage, retryExits, cfgVars, callVars, cachedPlan, createdPlan, timingRequests,
                   exampleListings, params, runVars, retryVars>>

\* mutant: every node takes the task of node 0
TaskOfNodeZero(p, node) ==
    IF "0" \in DOMAIN p.tasks THEN p.tasks["0"] ELSE <<>>

\* ------------------------------------------------------- main, after the plan
\* the task of this node: a key the plan does not hold reads as the zero Task
TaskOf(p, node) ==
    IF Itoa(node) \in DOMAIN p.tasks THEN p.tasks[Itoa(node)] ELSE <<>>

\* runnableTests: the Path of each test case of the task, in order
PathsOf(task) == [i \in 1..Len(task) |-> task[i].Path]

\* the process exits with this code (os.Exit)
Exit(code) ==
    /\ exited' = TRUE
    /\ exitCode' = code
    /\ pc' = "exited"

\* logErrorAndExit prints the message and exits with the code
logErrorAndExit(code, message) ==
    /\ Exit(code)
    /\ exitMessage' = message

\* os.Exit(0), and main returning: nothing is printed
osExit(code) ==
    /\ Exit(code)
    /\ exitMessage' = ""

PlanErrorMessage ==
    IF variant = "part_000" THEN "Couldn't fetch or create test plan"
    ELSE "Couldn't create test plan"

\* main from the return of fetchOrCreateTestPlan to cmd.Start()
\* (part_000:68-94, part_001:59-80): cmdOk and startOk are the outcomes of
\* testRunner.Command and cmd.Start
MainAfterPlan ==
    /\ pc = "returned"
    /\ \E cmdOk \in BOOLEAN, startOk \in BOOLEAN :
         IF ~IsNil(planErr)
         THEN /\ logErrorAndExit(InternalErrorCode, PlanErrorMessage)
              /\ UNCHANGED <<runnableTests, timeline, childStarts>>
         ELSE /\ runnableTests' = PathsOf(TaskOf(testPlan, cfg.NodeIndex))
              /\ IF ~cmdOk
                 THEN /\ logErrorAndExit(InternalErrorCode, "Couldn't process test command")
                      /\ UNCHANGED <<timeline, childStarts>>
                 ELSE /\ timeline' = IF variant = "part_000"
                                     THEN Append(timeline, "test_start")
                                     ELSE timeline
                      /\ IF ~startOk
                         THEN /\ logErrorAndExit(InternalErrorCode, "Couldn't start tests")
                              /\ UNCHANGED childStarts
                         ELSE /\ childStarts' = childStarts + 1
                              /\ pc' = "running"
                              /\ UNCHANGED <<exited, exitCode, exitMessage>>
    /\ UNCHANGED <<otherVars, retryExits, cfgVars, callVars, planVars, retryVars>>

\* ---------------------------------------------------------- the supervisor
\* sendMetadata: the report carries the timeline; a failed delivery is
\* printed and changes nothing
SendMetadata(tl) ==
    /\ metadataSent' = metadataSent + 1
    /\ reported' = tl

NoMetadata == UNCHANGED <<metadataSent, reported>>

RetryStartEvent(k) == "retry_" \o Itoa(k) \o "_start"
\* mutant: the end marker is numbered from 0
RetryEndEventFromZero(k) == "retry_" \o Itoa(k - 1) \o "_end"

RetryEndEvent(k) == "retry_" \o Itoa(k) \o "_end"

\* mutant: the event is put in front of the timeline
RecordInFront(tl, event) == IF variant = "part_000" THEN <<event>> \o tl ELSE tl

\* the timeline after an event: part_001 keeps no timeline
Record(tl, event) == IF variant = "part_000" THEN Append(tl, event) ELSE tl

\* the end of main on the paths that did not exit: part_000 reports and
\* closes finishCh (part_000:148-151), part_001 closes it (part_001:127-128);
\* main has then still to return
CloseFinishCh(tl) ==
    /\ IF variant = "part_000" THEN SendMetadata(tl) ELSE NoMetadata
    /\ finishClosed' = finishClosed + 1
    /\ pc' = "closed"
    /\ UNCHANGED <<exited, exitCode, exitMessage>>

\* mutant: the failing branch exits without the sendMetadata call
FinishUnreported(code, tl) ==
    IF code # 0
    THEN /\ NoMetadata
         /\ logErrorAndExit(code, "Rspec exited with error after retry failing tests")
         /\ UNCHANGED finishClosed
    ELSE CloseFinishCh(tl)

\* main after retryFailedTests returned code (part_000:137-151,
\* part_001:116-121)
Finish(code, tl) ==
    IF variant = "part_000"
    THEN IF code # 0
         THEN /\ SendMetadata(tl)
              /\ logErrorAndExit(code, "Rspec exited with error after retry failing tests")
              /\ UNCHANGED finishClosed
         ELSE CloseFinishCh(tl)
    ELSE /\ NoMetadata
         /\ IF code = 0
            THEN osExit(0)
            ELSE logErrorAndExit(code, "Rspec exited with error after retry failing tests")
         /\ UNCHANGED finishClosed

\* mutant: the MaxRetries == 0 branch is never taken
RetriesDisabledNever(c) == FALSE

\* cfg.MaxRetries == 0: "If retry is disabled, we exit immediately"
RetriesDisabled(c) == c.MaxRetries = 0

\* cmd.Wait() of the primary command returns, and main acts on its error
\* (part_000:123-152, part_001:109-129)
WaitPrimary ==
    /\ pc = "running"
    /\ \E out \in WaitOutcomes :
         LET tl == Record(timeline, "test_end")
         IN /\ timeline' = tl
            /\ primaryExit' = out
            /\ IF out.kind = "ok"
               THEN /\ CloseFinishCh(tl)
                    /\ UNCHANGED <<retries, retryEntered>>
               ELSE IF out.kind = "exit"
               THEN IF RetriesDisabled(cfg)
                    THEN /\ IF variant = "part_000" THEN SendMetadata(tl) ELSE NoMetadata
                         /\ logErrorAndExit(out.code, "Rspec exited with error")
                         /\ UNCHANGED <<retries, retryEntered, finishClosed>>
                    ELSE /\ retries' = 0
                         /\ retryEntered' = TRUE
                         /\ pc' = "retry"
                         /\ NoMetadata
                         /\ UNCHANGED <<exited, exitCode, exitMessage, finishClosed>>
               ELSE /\ logErrorAndExit(InternalErrorCode, "Couldn't run tests")
                    /\ NoMetadata
                    /\ UNCHANGED <<retries, retryEntered, finishClosed>>
    /\ UNCHANGED <<otherVars, retryExits, cfgVars, callVars, planVars, runnableTests, childStarts>>

\* mutant: the loop runs one attempt more than MaxRetries
RetryLoopConditionOffByOne(n, maxRetries) == n <= maxRetries

\* retryFailedTests' loop condition: retries < maxRetries
RetryLoopCondition(n, maxRetries) == n < maxRetries

\* the head of retryFailedTests' loop up to cmd.Start() (part_000:173-188):
\* buildOk and startOk are the outcomes of RetryCommand and cmd.Start
RetryAttempt ==
    /\ pc = "retry"
    /\ \E buildOk \in BOOLEAN, startOk \in BOOLEAN :
         IF ~RetryLoopCondition(retries, cfg.MaxRetries)
         THEN /\ Finish(1, timeline)
              /\ UNCHANGED <<retries, timeline, childStarts>>
         ELSE /\ retries' = retries + 1
              /\ IF ~buildOk
                 THEN /\ logErrorAndExit(InternalErrorCode, "Couldn't process retry command")
                      /\ NoMetadata
                      /\ UNCHANGED <<timeline, childStarts, finishClosed>>
                 ELSE /\ timeline' = Record(timeline, RetryStartEvent(retries + 1))
                      /\ NoMetadata
                      /\ UNCHANGED finishClosed
                      /\ IF ~startOk
                         THEN /\ logErrorAndExit(InternalErrorCode, "Couldn't start tests")
                              /\ UNCHANGED childStarts
                         ELSE /\ childStarts' = childStarts + 1
                              /\ pc' = "retry_running"
                              /\ UNCHANGED <<exited, exitCode, exitMessage>>
    /\ UNCHANGED <<otherVars, retryExits, cfgVars, callVars, planVars, runnableTests,
                   retryEntered, primaryExit>>

\* mutant: a failed last attempt is not recognised
LastAttemptNever(n, maxRetries) == FALSE

\* "if retries >= maxRetries": the failed attempt was the last one
LastAttempt(n, maxRetries) == n >= maxRetries

\* mutant: anything but an exit code counts as a pass
AttemptPassedUnlessExitError(out) == out.kind # "exit"

\* the else of "if err != nil" after the attempt's cmd.Wait() (part_000:195,
\* 203-206)
AttemptPassed(out) == out.kind = "ok"

\* cmd.Wait() of a retry attempt returns (part_000:190-207)
RetryWait ==
    /\ pc = "retry_running"
    /\ \E out \in WaitOutcomes :
         LET tl == Record(timeline, RetryEndEvent(retries))
         IN /\ timeline' = tl
            /\ retryExits' = Append(retryExits, out)
            /\ IF AttemptPassed(out)
               THEN Finish(0, tl)
               ELSE IF out.kind = "exit" /\ LastAttempt(retries, cfg.MaxRetries)
               THEN Finish(out.code, tl)
               ELSE /\ pc' = "retry"
                    /\ NoMetadata
                    /\ UNCHANGED <<exited, exitCode, exitMessage, finishClosed>>
    /\ UNCHANGED <<otherVars, cfgVars, callVars, planVars, runnableTests, childStarts,
                   retries, retryEntered, primaryExit>>

\* main returns after close(finishCh) and the process ends with code 0
\* (part_000:151-152, part_001:128-129)
MainReturn ==
    /\ pc = "closed"
    /\ osExit(0)
    /\ UNCHANGED <<otherVars, retryExits, cfgVars, callVars, planVars, runnableTests,
                   timeline, childStarts, retryVars>>

vars == <<cfgVars, pc, callVars, planVars, runVars, retryVars, exitMessage, retryExits, otherVars>>

Init == InitAcquire

Next ==
    \/ FetchTestPlanAttempt
    \/ FetchTestPlanNotFound
    \/ FetchReturned
    \/ CreateRequestParam
    \/ CreateTestPlanAttempt
    \/ CreateReturned
    \/ FetchReturnedLegacy
    \/ CreateDeadlineExceeded
    \/ CreateReturnedLegacy
    \/ MainAfterPlan

Spec == Init /\ [][Next]_vars

\* ------------------------------------------------- FetchTestPlan on its own
\* api.FetchTestPlan is entered with a fresh retrier
InitFetch ==
    /\ Started
    /\ NoRequestParam
    /\ pc = "fetch_call"
    /\ ProgramStart
    /\ cfg.MaxRetries = 0
    /\ ~cfg.SplitByExample

\* one turn of roko.DoFunc's loop in FetchTestPlan: tryFetchTestPlan gets
\* the answer resp, and FetchTestPlan returns when the retrier is done
\* (fetch_plan.go:54-72); the error is kept as FetchTestPlan returns it
CallFetchTestPlan ==
    /\ pc = "fetch_call"
    /\ \E resp \in Responses(files, cfg.Parallelism) :
         LET r == RetrierStep(attemptCount, manualBreak, resp)
         IN /\ CallAttempt("fetch", resp, "fetch_done")
            /\ lastResp' = resp
            /\ tryResult' = tryFetchTestPlan(resp)
            /\ fetchResult' = IF r.done THEN [plan |-> r.plan, err |-> r.err]
                              ELSE fetchResult
    /\ UNCHANGED <<cfgVars, timingRequests, exampleListings, params, testPlan, planErr,
                   usedFallback, runVars, retryVars, exitMessage, retryExits, startVars,
                   sigVars, renderVars, paramVars>>

NextFetch == CallFetchTestPlan

SpecFetch == InitFetch /\ [][NextFetch]_vars

\* --------------------------------------------- createRequestParam on its own
\* createRequestParam is entered with any configuration, any discovered files
\* and any timings the server may hold for them
InitParams ==
    /\ versionFlag = FALSE
    /\ configErr = FALSE
    /\ getFilesErr = FALSE
    /\ versionPrinted = FALSE
    /\ exitMessage = ""
    /\ retryExits = <<>>
    /\ pc = "params"
    /\ ProgramStart
    /\ variant = "part_000"
    /\ cfg.MaxRetries = 0
    /\ timings \in TimingsFor(files)
    /\ slowFiles = <<>>

\* createRequestParam(ctx, cfg, files, *apiClient, testRunner) is called and
\* returns (part_000:253)
CallCreateRequestParam ==
    /\ pc = "params"
    /\ \E tErr \in {NilErr} \cup TimingErrs, eErr \in {NilErr, PlainErr} :
         LET r == createRequestParam(cfg, files, tErr, timings, eErr)
         IN /\ timingRequests' = timingRequests + r.requests
            /\ exampleListings' = exampleListings + r.listings
            /\ params' = r.params
            /\ callErr' = r.err
            /\ slowFiles' = r.listed
    /\ pc' = "params_done"
    /\ UNCHANGED <<cfgVars, attemptCount, manualBreak, netAttempts, only5xx, got4xx,
                   cachedPlan, createdPlan, testPlan, planErr, usedFallback, runVars,
                   retryVars, exitMessage, retryExits, startVars, sigVars, renderVars,
                   fetchVars, timings>>

NextParams == CallCreateRequestParam

SpecParams == InitParams /\ [][NextParams]_vars

\* ------------------------------------------------------- the start of main
\* the state when main is entered: the flag and the failures of config.New
\* and GetFiles are inputs
InitMain ==
    /\ versionFlag \in BOOLEAN
    /\ configErr \in BOOLEAN
    /\ getFilesErr \in BOOLEAN
    /\ versionPrinted = FALSE
    /\ exitMessage = ""
    /\ retryExits = <<>>
    /\ NoRequestParam
    /\ pc = "start"
    /\ ProgramStart

\* main up to the call of fetchOrCreateTestPlan (part_000:32-57):
\* config.New, then flag.Parse and the version flag, then GetFiles
MainStart ==
    /\ pc = "start"
    /\ IF configErr
       THEN /\ logErrorAndExit(InternalErrorCode, "Invalid configuration")
            /\ UNCHANGED versionPrinted
       ELSE IF versionFlag
       THEN /\ versionPrinted' = TRUE
            /\ osExit(0)
       ELSE IF getFilesErr
       THEN /\ logErrorAndExit(InternalErrorCode, "Couldn't get files")
            /\ UNCHANGED versionPrinted
       ELSE /\ pc' = "fetch"
            /\ UNCHANGED <<versionPrinted, exited, exitCode, exitMessage>>
    /\ UNCHANGED <<cfgVars, callVars, planVars, runnableTests, timeline, childStarts,
                   retryVars, retryExits, versionFlag, configErr, getFilesErr,
                   sigVars, renderVars, paramVars, fetchVars>>

NextMain ==
    \/ MainStart
    \/ FetchTestPlanAttempt
    \/ FetchTestPlanNotFound
    \/ FetchReturned
    \/ CreateRequestParam
    \/ CreateTestPlanAttempt
    \/ CreateReturned
    \/ FetchReturnedLegacy
    \/ CreateDeadlineExceeded
    \/ CreateReturnedLegacy
    \/ MainAfterPlan

\* the program from the entry of main to the start of the primary command
SpecMain == InitMain /\ [][NextMain]_vars

\* the supervisor's specification starts where the primary command has just
\* been started, after a cached plan was found at the first attempt
RunEntry ==
    /\ Started
    /\ NoRequestParam
    /\ NoFetchCall
    /\ NoSignals
    /\ NoRender
    /\ variant \in Variants
    /\ cfg \in {c \in Configs : c.NodeIndex < c.Parallelism}
    /\ files \in {DiscoveredFiles(k) : k \in 0..MaxFiles}
    /\ pc = "running"
    /\ attemptCount = 0
    /\ manualBreak = FALSE
    /\ netAttempts = [c \in Calls |-> IF c = "fetch" THEN 1 ELSE 0]
    /\ only5xx = [c \in Calls |-> FALSE]
    /\ got4xx = [c \in Calls |-> FALSE]
    /\ callErr = NilErr
    /\ testPlan \in {p \in ServerPlans(files, cfg.Parallelism) : DOMAIN p.tasks # {}}
    /\ cachedPlan = [found |-> TRUE, tasks |-> testPlan.tasks]
    /\ createdPlan = EmptyPlan
    /\ timingRequests = 0
    /\ exampleListings = 0
    /\ params = NoParams
    /\ planErr = NilErr
    /\ usedFallback = FALSE
    /\ runnableTests = PathsOf(TaskOf(testPlan, cfg.NodeIndex))
    /\ timeline = IF variant = "part_000" THEN <<"test_start">> ELSE <<>>
    /\ childStarts = 1
    /\ exited = FALSE
    /\ exitCode = 0
    /\ retries = 0
    /\ retryEntered = FALSE
    /\ primaryExit = NotWaited
    /\ metadataSent = 0
    /\ reported = <<>>
    /\ finishClosed = 0

NextRun ==
    \/ WaitPrimary
    \/ RetryAttempt
    \/ RetryWait
    \/ MainReturn

SpecRun == RunEntry /\ [][NextRun]_vars

\* the main flow is sequential code and every child process ends
SpecRunFair == SpecRun /\ WF_vars(NextRun)

\* ------------------------------------------- the signal-forwarding goroutine
\* forwarder is "none" from `go func()` until the goroutine has executed
\* signal.Notify(sigCh), "select" while it is in its for/select loop, and
\* "stopped" after the finishCh case made it return
MaxSignals == 2

\* make(chan os.Signal, 1)
SigChCapacity == 1

\* how the process ends when the default action of an uncaught signal kills it
SignaledExitCode == -1

\* signal.Notify(sigCh): from now on every incoming signal is relayed to sigCh
\* (part_000:102-103)
SignalNotify ==
    /\ ~exited
    /\ forwarder = "none"
    /\ forwarder' = "select"
    /\ UNCHANGED <<sigCh, sigSent, sigDuring, forwardedSigs, uncaughtSigs, droppedSigs>>
    /\ UNCHANGED <<cfgVars, pc, callVars, planVars, runVars, retryVars, exitMessage,
                   retryExits, startVars, renderVars, paramVars, fetchVars>>

\* the operating system delivers a signal to the supervisor. With a notified
\* channel the runtime sends it without blocking, so a full sigCh loses it;
\* with none (before signal.Notify, after signal.Stop) the signal has its
\* default action, which ends the process (fatal) or does nothing
SignalArrives ==
    /\ ~exited
    /\ sigSent < MaxSignals
    /\ LET sig == sigSent + 1
       IN /\ sigSent' = sig
          /\ sigDuring' = IF pc = "running" THEN sigDuring \cup {sig} ELSE sigDuring
          /\ IF forwarder = "select"
             THEN /\ IF Len(sigCh) < SigChCapacity
                     THEN sigCh' = Append(sigCh, sig) /\ UNCHANGED droppedSigs
                     ELSE droppedSigs' = droppedSigs \cup {sig} /\ UNCHANGED sigCh
                  /\ UNCHANGED <<uncaughtSigs, pc, exited, exitCode, exitMessage>>
             ELSE /\ uncaughtSigs' = uncaughtSigs \cup {sig}
                  /\ UNCHANGED <<sigCh, droppedSigs>>
                  /\ \E fatal \in BOOLEAN :
                       IF fatal
                       THEN osExit(SignaledExitCode)
                       ELSE UNCHANGED <<pc, exited, exitCode, exitMessage>>
    /\ UNCHANGED <<forwarder, forwardedSigs>>
    /\ UNCHANGED <<cfgVars, callVars, planVars, runnableTests, timeline, childStarts,
                   retryVars, retryExits, startVars, renderVars, paramVars, fetchVars>>

\* case sig := <-sigCh: cmd.Process.Signal(sig), cmd being the primary
\* command (part_000:112-114)
ForwardSignal ==
    /\ ~exited
    /\ forwarder = "select"
    /\ sigCh # <<>>
    /\ forwardedSigs' = forwardedSigs \cup {Head(sigCh)}
    /\ sigCh' = Tail(sigCh)
    /\ UNCHANGED <<forwarder, sigSent, sigDuring, uncaughtSigs, droppedSigs>>
    /\ UNCHANGED <<cfgVars, pc, callVars, planVars, runVars, retryVars, exitMessage,
                   retryExits, startVars, renderVars, paramVars, fetchVars>>

\* mutant: the select looks at finishCh only when no signal is pending
FinishCaseReadyWhenIdle(pending, closed) == closed > 0 /\ pending = <<>>

\* the select's case <-finishCh is ready as soon as finishCh is closed,
\* whatever sigCh holds (part_000:110-115)
FinishCaseReady(pending, closed) == closed > 0

\* the process whose Signal method the goroutine calls: cmd of main, the
\* primary command (part_000:82, 114)
ForwardTarget == "primary"

\* case <-finishCh: signal.Stop(sigCh) and return (part_000:115-118)
ForwarderStop ==
    /\ ~exited
    /\ forwarder = "select"
    /\ FinishCaseReady(sigCh, finishClosed)
    /\ forwarder' = "stopped"
    /\ UNCHANGED <<sigCh, sigSent, sigDuring, forwardedSigs, uncaughtSigs, droppedSigs>>
    /\ UNCHANGED <<cfgVars, pc, callVars, planVars, runVars, retryVars, exitMessage,
                   retryExits, startVars, renderVars, paramVars, fetchVars>>

NextSignal ==
    \/ WaitPrimary
    \/ RetryAttempt
    \/ RetryWait
    \/ MainReturn
    \/ SignalNotify
    \/ SignalArrives
    \/ ForwardSignal
    \/ ForwarderStop

\* the supervisor with its forwarding goroutine, from `go func()` on
SpecSignal == RunEntry /\ [][NextSignal]_vars

\* the same for one worker with one discovered file
ForwardEntry ==
    /\ RunEntry
    /\ cfg.Parallelism = 1
    /\ ~cfg.SplitByExample
    /\ Len(files) = 1

\* the goroutine is scheduled, and the select takes a ready case in the end;
\* nothing is assumed about main or about the signals
SpecForwardFair ==
    /\ ForwardEntry /\ [][NextSignal]_vars
    /\ WF_vars(SignalNotify)
    /\ WF_vars(ForwarderStop)


\* ------------------------------------------- the fallback planner on its own
RECURSIVE SeqsUpTo(_, _)
SeqsUpTo(S, n) ==
    IF n = 0 THEN {<<>>}
    ELSE LET shorter == SeqsUpTo(S, n - 1)
         IN shorter \cup {Append(q, x) : q \in {t \in shorter : Len(t) = n - 1}, x \in S}

FallbackFileNames == {"a_spec.rb", "b_spec.rb", "c_spec.rb"}

\* any ordered list of files and any parallelism N >= 1
InitFallback ==
    /\ Started
    /\ NoRequestParam
    /\ NoFetchCall
    /\ NoSignals
    /\ NoRender
    /\ variant = "part_000"
    /\ cfg \in [Parallelism : 1..MaxFallbackParallelism, NodeIndex : {0},
                MaxRetries : {0}, SplitByExample : {FALSE}]
    /\ files \in SeqsUpTo(FallbackFileNames, MaxFallbackLen)
    /\ pc = "fallback"
    /\ attemptCount = 0
    /\ manualBreak = FALSE
    /\ netAttempts = [c \in Calls |-> 0]
    /\ only5xx = [c \in Calls |-> TRUE]
    /\ got4xx = [c \in Calls |-> FALSE]
    /\ callErr = NilErr
    /\ cachedPlan = NoCached
    /\ createdPlan = EmptyPlan
    /\ timingRequests = 0
    /\ exampleListings = 0
    /\ params = NoParams
    /\ testPlan = EmptyPlan
    /\ planErr = NilErr
    /\ usedFallback = FALSE
    /\ runnableTests = <<>>
    /\ timeline = <<>>
    /\ childStarts = 0
    /\ exited = FALSE
    /\ exitCode = 0
    /\ retries = 0
    /\ retryEntered = FALSE
    /\ primaryExit = NotWaited
    /\ metadataSent = 0
    /\ reported = <<>>
    /\ finishClosed = 0

\* plan.CreateFallbackPlan(files, cfg.Parallelism) is called and returns
CallCreateFallbackPlan ==
    /\ pc = "fallback"
    /\ Return(Fallback(files, cfg.Parallelism))
    /\ UNCHANGED <<otherVars, exitMessage, retryExits, cfgVars, callVars, cachedPlan, createdPlan, timingRequests,
                   exampleListings, params, runVars, retryVars>>

NextFallback == CallCreateFallbackPlan

SpecFallback == InitFallback /\ [][NextFallback]_vars


\* ------------------------------------------------ the command templates
\* A template is the sequence of its characters and a token is a sequence of
\* characters; a placeholder is written as one character, so that a token is
\* a placeholder exactly when it consists of that character alone.
MaxTemplateLen == 5

TestExamples == <<"{{testExamples}}">>
OutputFile == <<"{{outputFile}}">>
TestNamePattern == <<"{{testNamePattern}}">>

TemplateChars == {"j", " ", "'"} \cup {TestExamples[1], OutputFile[1], TestNamePattern[1]}

\* the templates of the model: they begin with a character of the command
\* name and hold each placeholder at most once
Templates ==
    {t \in SeqsUpTo(TemplateChars, MaxTemplateLen) :
        /\ Len(t) >= 1
        /\ t[1] = "j"
        /\ \A i, k \in 1..Len(t) :
             (i # k /\ t[i] = t[k]) => t[i] \in {"j", " ", "'"}}

\* test identifiers and failed test names, one of them holding a space
IdentifierLists ==
    { <<>>, << <<"t", "1">> >>, << <<"t", "1">>, <<"t", " ", "2">> >>,
      << <<"t", " ", "2">>, <<"t", "1">> >> }

NoError == ""
UnterminatedSingleQuoteError == "Unterminated single-quoted string"
MissingSentinelError == "couldn't find '{{testNamePattern}}' sentinel in retry command"

\* shellquote.Split restricted to blanks and single quotes: blanks separate
\* words, a quoted stretch is taken literally and joins the word around it,
\* and input that ends inside a quote is an error
RECURSIVE SplitFrom(_, _, _, _, _, _)
SplitFrom(cs, i, cur, open, inQuote, words) ==
    IF i > Len(cs)
    THEN IF inQuote
         THEN [words |-> <<>>, err |-> UnterminatedSingleQuoteError]
         ELSE [words |-> IF open THEN Append(words, cur) ELSE words, err |-> NoError]
    ELSE LET c == cs[i]
         IN IF inQuote
            THEN IF c = "'"
                 THEN SplitFrom(cs, i + 1, cur, TRUE, FALSE, words)
                 ELSE SplitFrom(cs, i + 1, Append(cur, c), TRUE, TRUE, words)
            ELSE IF c = " "
                 THEN SplitFrom(cs, i + 1, <<>>, FALSE, FALSE,
                                IF open THEN Append(words, cur) ELSE words)
                 ELSE IF c = "'"
                 THEN SplitFrom(cs, i + 1, cur, TRUE, TRUE, words)
                 ELSE SplitFrom(cs, i + 1, Append(cur, c), TRUE, FALSE, words)

Split(cs) == SplitFrom(cs, 1, <<>>, FALSE, FALSE, <<>>)

\* the position of the first word equal to w, 0 when there is none
Index(words, w) ==
    IF \E i \in 1..Len(words) : words[i] = w
    THEN CHOOSE i \in 1..Len(words) :
            words[i] = w /\ \A k \in 1..(i - 1) : words[k] # w
    ELSE 0

\* words with the word at position idx replaced by the words of by
Replace(words, idx, by) ==
    SubSeq(words, 1, idx - 1) \o by \o SubSeq(words, idx + 1, Len(words))

\* {{outputFile}} becomes the configured result path
WithOutputFile(words, path) ==
    IF Index(words, OutputFile) = 0 THEN words
    ELSE Replace(words, Index(words, OutputFile), <<path>>)

FailedConstruction(call, err) == [call |-> call, name |-> <<>>, args |-> <<>>, err |-> err]

Constructed(call, words) ==
    [call |-> call, name |-> Head(words), args |-> Tail(words), err |-> NoError]

\* mutant: the identifiers are always appended after the template's tokens
WithTestExamplesAppended(words, testCases) ==
    IF Index(words, TestExamples) = 0 THEN words \o testCases
    ELSE Replace(words, Index(words, TestExamples), <<>>) \o testCases

\* {{testExamples}} becomes the identifiers, which are appended when the
\* template does not hold it
WithTestExamples(words, testCases) ==
    IF Index(words, TestExamples) = 0 THEN words \o testCases
    ELSE Replace(words, Index(words, TestExamples), testCases)

\* commandNameAndArgs(cmd, testCases): the rendered primary command
commandNameAndArgs(cmd, testCases, path) ==
    LET split == Split(cmd)
    IN IF split.err # NoError THEN FailedConstruction("command", split.err)
       ELSE Constructed("command",
                        WithOutputFile(WithTestExamples(split.words, testCases), path))

RECURSIVE Join(_, _)
Join(names, sep) ==
    IF names = <<>> THEN <<>>
    ELSE IF Len(names) = 1 THEN names[1]
    ELSE names[1] \o <<sep>> \o Join(Tail(names), sep)

\* mutant: the alternation is built from the names in reverse order
NamePatternReversed(names) == <<"(">> \o Join(Reverse(names), "|") \o <<")">>

\* fmt.Sprintf("(%s)", strings.Join(testCases, "|"))
NamePattern(names) == <<"(">> \o Join(names, "|") \o <<")">>

\* retryCommandNameAndArgs(cmd, testCases): the rendered retry command
retryCommandNameAndArgs(cmd, testCases, path) ==
    LET split == Split(cmd)
    IN IF split.err # NoError THEN FailedConstruction("retry", split.err)
       ELSE IF Index(split.words, TestNamePattern) = 0
       THEN FailedConstruction("retry", MissingSentinelError)
       ELSE Constructed("retry",
                WithOutputFile(Replace(split.words, Index(split.words, TestNamePattern),
                                       <<NamePattern(testCases)>>), path))

ResultPaths == { <<"out.json">> }

\* a runner with a template, before one of its commands is rendered
InitRender ==
    /\ Started
    /\ NoRequestParam
    /\ NoFetchCall
    /\ NoSignals
    /\ template \in Templates
    /\ identifiers \in IdentifierLists
    /\ resultPath \in ResultPaths
    /\ rendered = [call |-> "none"]
    /\ variant = "part_000"
    /\ cfg \in [Parallelism : {1}, NodeIndex : {0}, MaxRetries : {0}, SplitByExample : {FALSE}]
    /\ files = <<>>
    /\ pc = "render"
    /\ attemptCount = 0
    /\ manualBreak = FALSE
    /\ netAttempts = [c \in Calls |-> 0]
    /\ only5xx = [c \in Calls |-> TRUE]
    /\ got4xx = [c \in Calls |-> FALSE]
    /\ callErr = NilErr
    /\ cachedPlan = NoCached
    /\ createdPlan = EmptyPlan
    /\ timingRequests = 0
    /\ exampleListings = 0
    /\ params = NoParams
    /\ testPlan = EmptyPlan
    /\ planErr = NilErr
    /\ usedFallback = FALSE
    /\ runnableTests = <<>>
    /\ timeline = <<>>
    /\ childStarts = 0
    /\ exited = FALSE
    /\ exitCode = 0
    /\ retries = 0
    /\ retryEntered = FALSE
    /\ primaryExit = NotWaited
    /\ metadataSent = 0
    /\ reported = <<>>
    /\ finishClosed = 0

RenderUnchanged ==
    UNCHANGED <<cfgVars, callVars, planVars, runVars, retryVars, exitMessage, retryExits,
                startVars, sigVars, paramVars, fetchVars, template, identifiers, resultPath>>

\* jest.commandNameAndArgs(testCommand, testCases) is called
CallCommandNameAndArgs ==
    /\ pc = "render"
    /\ rendered' = commandNameAndArgs(template, identifiers, resultPath)
    /\ pc' = "rendered"
    /\ RenderUnchanged

\* jest.retryCommandNameAndArgs(retryTestCommand, testCases) is called
CallRetryCommandNameAndArgs ==
    /\ pc = "render"
    /\ rendered' = retryCommandNameAndArgs(template, identifiers, resultPath)
    /\ pc' = "rendered"
    /\ RenderUnchanged

NextRender ==
    \/ CallCommandNameAndArgs
    \/ CallRetryCommandNameAndArgs

SpecRender == InitRender /\ [][NextRender]_vars


\* ------------------------------------------------------------------ claims
HasTasks(p) == DOMAIN p.tasks # {}
AfterReturn == pc \in {"returned", "running", "exited"}
FallbackOf == CreateFallbackPlan(files, cfg.Parallelism)

\* the pc at which a call is in progress
CallPc(c) == IF c = "fetch" THEN "fetch" ELSE "create"

\* C1: whenever fetchOrCreateTestPlan returns without error, the returned
\* plan has at least one task, whatever the fetch and the create call gave.
C1_NeverReturnsEmptyPlan ==
    (pc = "returned" /\ IsNil(planErr)) => HasTasks(testPlan)

\* C1, part_000 alone: there the returned plan always has a task.
C1_Part000NeverReturnsEmptyPlan ==
    (variant = "part_000" /\ pc = "returned" /\ IsNil(planErr)) => HasTasks(testPlan)

\* C2: a cached plan with a non-empty task mapping is returned as it is, with
\* no error, and no file-timing request, example listing or create request
\* is issued in that run.
C2_CacheHitShortCircuits ==
    (cachedPlan.found /\ DOMAIN cachedPlan.tasks # {}) =>
        /\ timingRequests = 0
        /\ exampleListings = 0
        /\ netAttempts["create"] = 0
        /\ pc \notin {"params", "create", "created"}
        /\ AfterReturn =>
             /\ testPlan = [tasks |-> cachedPlan.tasks]
             /\ IsNil(planErr)
             /\ ~usedFallback

C2_Witness ==
    /\ pc = "returned"
    /\ cachedPlan.found
    /\ DOMAIN cachedPlan.tasks # {}
    /\ testPlan = [tasks |-> cachedPlan.tasks]
    /\ testPlan # FallbackOf
    /\ netAttempts["fetch"] = 3

\* C3: a cached plan or a created plan with an empty task mapping makes
\* fetchOrCreateTestPlan return what CreateFallbackPlan gives for the
\* discovered files and the configured parallelism.
C3_EmptyPlanGivesFallback ==
    (/\ pc = "returned"
     /\ IsNil(callErr)
     /\ \/ cachedPlan.found /\ DOMAIN cachedPlan.tasks = {}
        \/ netAttempts["create"] > 0 /\ DOMAIN createdPlan.tasks = {})
    => (testPlan = FallbackOf /\ IsNil(planErr))

\* C3, part_000 alone.
C3_Part000EmptyPlanGivesFallback ==
    variant = "part_000" => C3_EmptyPlanGivesFallback

\* C4: once a call has received a 4xx response, no further network attempt
\* is made for that call, whatever number of the 5 attempts remain.
C4_No4xxRetry ==
    [][\A c \in Calls : got4xx[c] => netAttempts'[c] = netAttempts[c]]_vars

C4_Witness ==
    /\ pc = "created"
    /\ got4xx["create"]
    /\ netAttempts["create"] = 3
    /\ attemptCount = 3
    /\ attemptCount < retryMaxAttempts

C6_Sustained5xx ==
    variant = "part_000" =>
      \A c \in Calls : (only5xx[c] /\ netAttempts[c] > 0) =>
        /\ netAttempts[c] <= retryMaxAttempts
        /\ pc = CallPc(c) => netAttempts[c] < retryMaxAttempts
        /\ pc # CallPc(c) =>
             /\ netAttempts[c] = retryMaxAttempts
             /\ ErrorsIs(callErr, "limit")
             /\ ErrorsIs(callErr, "timeout")
             /\ AfterReturn =>
                  (usedFallback /\ IsNil(planErr) /\ testPlan = FallbackOf)

C6_Witness ==
    /\ variant = "part_000"
    /\ pc = "running"
    /\ only5xx["create"]
    /\ netAttempts["create"] = retryMaxAttempts
    /\ usedFallback
    /\ Len(files) = 2

\* C7: a plan request that fails because its attempts are exhausted, or
\* because the outer deadline passes first, makes the acquisition fall back
\* instead of returning an error.
C7_ExhaustionFallsBack ==
    (/\ pc = "returned"
     /\ ~ErrorsIs(callErr, "invalid")
     /\ ErrorsIs(callErr, "limit") \/ ErrorsIs(callErr, "deadline"))
    => (IsNil(planErr) /\ usedFallback /\ testPlan = FallbackOf)

\* C7, part_000 alone.
C7_Part000ExhaustionFallsBack ==
    variant = "part_000" => C7_ExhaustionFallsBack

\* the condition on which each generation falls back: api.ErrRetryTimeout in
\* part_000, context.DeadlineExceeded in part_001
IsRetryTimeoutCondition(err) ==
    IF variant = "part_000" THEN ErrorsIs(err, "timeout") ELSE ErrorsIs(err, "deadline")

\* C8: an error of the fetch, request-parameter or create step that is not
\* the retry-timeout condition is returned with no plan; main exits with 16
\* and no child test process is started.
C8_OtherErrorsAreFatal ==
    (AfterReturn /\ ~IsNil(callErr) /\ ~IsRetryTimeoutCondition(callErr)) =>
        /\ planErr = callErr
        /\ testPlan = EmptyPlan
        /\ ~usedFallback
        /\ pc # "running"
        /\ childStarts = 0
        /\ exited => exitCode = InternalErrorCode

C8_Witness ==
    /\ pc = "exited"
    /\ variant = "part_000"
    /\ timingRequests = 1
    /\ exampleListings = 1
    /\ callErr = PlainErr
    /\ planErr = PlainErr
    /\ exitCode = InternalErrorCode
    /\ childStarts = 0

\* the number of entries of s equal to x
RECURSIVE Count(_, _)
Count(x, s) == IF s = <<>> THEN 0 ELSE (IF Head(s) = x THEN 1 ELSE 0) + Count(x, Tail(s))

RECURSIVE SumOver(_, _, _)
SumOver(keys, tasks, x) ==
    IF keys = {} THEN 0
    ELSE LET k == CHOOSE k \in keys : TRUE
         IN Count(x, tasks[k]) + SumOver(keys \ {k}, tasks, x)

\* C9: for parallelism N >= 1 and any ordered list of files, the fallback
\* plan has exactly the N tasks "0".."N-1", holds every file exactly as often
\* as the list does, and its task sizes differ by at most 1.
C9_FallbackIsBalancedPartition ==
    pc = "returned" =>
        LET tasks == testPlan.tasks
            N == cfg.Parallelism
        IN /\ DOMAIN tasks = {Itoa(i) : i \in 0..(N - 1)}
           /\ Cardinality(DOMAIN tasks) = N
           /\ \A f \in FallbackFileNames :
                SumOver(DOMAIN tasks, tasks, TestCase(f)) = Count(f, files)
           /\ \A k \in DOMAIN tasks : \A i \in 1..Len(tasks[k]) :
                tasks[k][i].Path \in FallbackFileNames
           /\ \A k1, k2 \in DOMAIN tasks : Len(tasks[k1]) - Len(tasks[k2]) <= 1

C9_Witness ==
    /\ pc = "returned"
    /\ cfg.Parallelism = 2
    /\ Len(files) = 3
    /\ Len(testPlan.tasks["0"]) = 2
    /\ Len(testPlan.tasks["1"]) = 1

RetryEvents == {RetryStartEvent(k) : k \in 1..(MaxRetriesCfg + 2)}
                 \cup {RetryEndEvent(k) : k \in 1..(MaxRetriesCfg + 2)}

C10_Invariant ==
    /\ retryEntered =>
         (primaryExit.kind = "exit" /\ primaryExit.code # 0 /\ cfg.MaxRetries > 0)
    /\ (~retryEntered) =>
         (retries = 0 /\ childStarts = 1 /\ pc \notin {"retry", "retry_running"}
          /\ \A i \in 1..Len(timeline) : timeline[i] \notin RetryEvents)
    /\ retries <= cfg.MaxRetries
    /\ childStarts - 1 <= retries
    /\ pc = "retry_running" => (retries >= 1 /\ childStarts = retries + 1)
    /\ (variant = "part_000" /\ Len(timeline) >= 3) => timeline[3] = RetryStartEvent(1)

\* C10: the retry loop is entered only after the primary command exits
\* non-zero with MaxRetries > 0, its attempts are numbered from 1, at most
\* MaxRetries attempts are started, and the supervisor always exits.
C10_RetryLoopBounded == [](C10_Invariant) /\ <>exited

C10_Witness ==
    /\ exited
    /\ retryEntered
    /\ cfg.MaxRetries = 2
    /\ retries = 2
    /\ childStarts = 3
    /\ exitCode = 2

\* C11: when the primary command exits with a non-zero code c and MaxRetries
\* is 0, retryFailedTests is not entered, no retry command is built or
\* started, and the supervisor exits with exactly c.
C11_NoRetryPropagatesExit ==
    (primaryExit.kind = "exit" /\ cfg.MaxRetries = 0) =>
        /\ exited
        /\ exitCode = primaryExit.code
        /\ exitCode # 0
        /\ ~retryEntered
        /\ retries = 0
        /\ retryExits = <<>>
        /\ childStarts = 1

C11_Witness ==
    /\ exited
    /\ cfg.MaxRetries = 0
    /\ primaryExit = [kind |-> "exit", code |-> 2]
    /\ exitCode = 2
    /\ childStarts = 1

\* the timeline label retry_<j>_<edge> of the claims
Marker(j, edge) == "retry_" \o Itoa(j) \o "_" \o edge

\* the timeline part_000 reports when k retry attempts were run to their end
TimelineWithRetries(k) ==
    [i \in 1..(2 + 2 * k) |->
        IF i = 1 THEN "test_start"
        ELSE IF i = 2 THEN "test_end"
        ELSE IF i % 2 = 1 THEN Marker((i - 1) \div 2, "start")
        ELSE Marker((i - 2) \div 2, "end")]

InSeq(x, q) == \E i \in 1..Len(q) : q[i] = x

\* C12: when the primary command exited non-zero and retry attempt k is the
\* first to exit 0, the supervisor ends with code 0, no attempt after k is
\* started, and (part_000) the reported timeline holds retry_j_start and
\* retry_j_end for every j in 1..k and for no j > k.
C12_PassOnRetry ==
    LET k == Len(retryExits)
    IN (k >= 1 /\ retryExits[k].kind = "ok") =>
        /\ primaryExit.kind = "exit" /\ primaryExit.code # 0
        /\ \A j \in 1..(k - 1) : retryExits[j].kind # "ok"
        /\ k <= cfg.MaxRetries
        /\ pc \in {"closed", "exited"}
        /\ exited => exitCode = 0
        /\ retries = k
        /\ childStarts = k + 1
        /\ variant = "part_000" =>
             /\ metadataSent = 1
             /\ reported = TimelineWithRetries(k)
             /\ \A j \in 1..k : InSeq(Marker(j, "start"), reported)
                                  /\ InSeq(Marker(j, "end"), reported)
             /\ \A j \in (k + 1)..(MaxRetriesCfg + 2) :
                    ~InSeq(Marker(j, "start"), reported)
                    /\ ~InSeq(Marker(j, "end"), reported)

C12_Witness ==
    /\ variant = "part_000"
    /\ exited
    /\ exitCode = 0
    /\ primaryExit = [kind |-> "exit", code |-> 1]
    /\ cfg.MaxRetries = 2
    /\ Len(retryExits) = 2
    /\ retryExits[1].kind = "exit"
    /\ retryExits[2].kind = "ok"
    /\ reported = <<"test_start", "test_end", "retry_1_start", "retry_1_end",
                    "retry_2_start", "retry_2_end">>

InternalErrorMessages ==
    {"Couldn't run tests", "Couldn't process retry command", "Couldn't start tests"}

\* C14 as stated: once the primary child has been started, every exit of the
\* supervisor (part_000) is preceded by a metadata report.
C14_EveryExitReports ==
    (variant = "part_000" /\ exited /\ childStarts >= 1) => metadataSent >= 1

\* C14 amended: after the primary start (part_000), the exits that carry a
\* test outcome (success, failure without retry, pass on retry, exhausted
\* retries) send the metadata report, with the whole timeline, exactly once
\* before exiting; the internal-error exits with 16 after a failed wait or a
\* failed retry construction or start send none.
C14_OutcomeExitsReport ==
    (variant = "part_000" /\ childStarts >= 1 /\ pc \in {"closed", "exited"}) =>
        IF exitMessage \in InternalErrorMessages
        THEN /\ metadataSent = 0
             /\ exitCode = InternalErrorCode
             /\ finishClosed = 0
        ELSE /\ metadataSent = 1
             /\ reported = timeline
             /\ exitMessage \in {"", "Rspec exited with error",
                                 "Rspec exited with error after retry failing tests"}

C14_Witness ==
    /\ variant = "part_000"
    /\ exited
    /\ exitMessage = "Rspec exited with error after retry failing tests"
    /\ exitCode = 2
    /\ metadataSent = 1
    /\ Len(reported) = 6

\* C15: every signal delivered to the supervisor between the start of the
\* primary child and that child's exit reaches the forwarding goroutine:
\* none is left to its default action and none is dropped at a full channel.
C15_NoSignalLost ==
    \A sig \in sigDuring : sig \notin uncaughtSigs /\ sig \notin droppedSigs

\* C16: finishCh is closed exactly once on every path, as soon as the
\* primary child has been waited on (so before any retry and before the
\* report), and the goroutine passes on no signal delivered after that.
C16_FinishRaisedOnceAfterWait ==
    /\ finishClosed <= 1
    /\ primaryExit # NotWaited => finishClosed = 1
    /\ \A sig \in forwardedSigs : sig \in sigDuring

\* C17: a command-construction error is found before any child process is
\* spawned: the supervisor never exits, after the primary command was
\* started, because a command could not be built from its template.
C17_TemplateErrorsBeforeSpawn ==
    ~(exited /\ childStarts >= 1 /\ exitMessage = "Couldn't process retry command")

\* C17, the returned values alone: a failed construction gives an empty
\* command name and an empty argument list together with the error.
C17_FailedConstructionIsEmpty ==
    (pc = "rendered" /\ rendered.err # NoError) =>
        /\ rendered.name = <<>>
        /\ rendered.args = <<>>
        /\ rendered.err \in {UnterminatedSingleQuoteError, MissingSentinelError}

\* a template token as it is rendered: {{outputFile}} is the result path
OutputFileReplaced(token) == IF token = OutputFile THEN resultPath ELSE token

\* C18: rendering a primary template with identifiers: the identifiers stand
\* at the position of {{testExamples}}, in order, when the template holds
\* it, and after all of the template's tokens when it does not; in both
\* cases {{outputFile}} is the result path and the first token is the name.
C18_RenderPrimary ==
    (pc = "rendered" /\ rendered.call = "command" /\ Split(template).err = NoError) =>
        LET w == Split(template).words
            r == <<rendered.name>> \o rendered.args
            n == Len(identifiers)
        IN /\ rendered.err = NoError
           /\ rendered.name = OutputFileReplaced(w[1])
           /\ \A p \in 1..Len(r) : r[p] # OutputFile
           /\ IF \E i \in 1..Len(w) : w[i] = TestExamples
              THEN LET i == CHOOSE i \in 1..Len(w) : w[i] = TestExamples
                   IN /\ Len(r) = Len(w) - 1 + n
                      /\ \A p \in 1..(i - 1) : r[p] = OutputFileReplaced(w[p])
                      /\ \A q \in 1..n : r[i - 1 + q] = identifiers[q]
                      /\ \A p \in (i + 1)..Len(w) : r[p - 1 + n] = OutputFileReplaced(w[p])
              ELSE /\ Len(r) = Len(w) + n
                   /\ \A p \in 1..Len(w) : r[p] = OutputFileReplaced(w[p])
                   /\ \A q \in 1..n : r[Len(w) + q] = identifiers[q]

C18_Witness ==
    /\ pc = "rendered"
    /\ rendered.call = "command"
    /\ template = <<"j", " ", "{{testExamples}}", " ", "{{outputFile}}">>
    /\ identifiers = << <<"t", "1">>, <<"t", " ", "2">> >>
    /\ rendered.name = <<"j">>
    /\ rendered.args = << <<"t", "1">>, <<"t", " ", "2">>, <<"out.json">> >>

\* the first k names with a bar between neighbours
RECURSIVE BarJoined(_, _)
BarJoined(names, k) ==
    IF k = 0 THEN <<>>
    ELSE IF k = 1 THEN names[1]
    ELSE BarJoined(names, k - 1) \o <<"|">> \o names[k]

\* C19: rendering a retry template that holds {{testNamePattern}} with the
\* failed names n1..nk puts the one token (n1|...|nk) in its place, names
\* verbatim and in order; a retry template without it gives the error
\* "couldn't find '{{testNamePattern}}' sentinel in retry command" and no
\* command.
C19_RenderRetry ==
    (pc = "rendered" /\ rendered.call = "retry" /\ Split(template).err = NoError) =>
        LET w == Split(template).words
            r == <<rendered.name>> \o rendered.args
            pattern == <<"(">> \o BarJoined(identifiers, Len(identifiers)) \o <<")">>
        IN IF \E i \in 1..Len(w) : w[i] = TestNamePattern
           THEN /\ rendered.err = NoError
                /\ Len(r) = Len(w)
                /\ \A p \in 1..Len(w) :
                     r[p] = IF w[p] = TestNamePattern THEN pattern
                            ELSE OutputFileReplaced(w[p])
           ELSE /\ rendered.err = "couldn't find '{{testNamePattern}}' sentinel in retry command"
                /\ rendered.name = <<>>
                /\ rendered.args = <<>>

C19_Witness ==
    /\ pc = "rendered"
    /\ rendered.call = "retry"
    /\ template = <<"j", " ", "'", "{{testNamePattern}}", "'">>
    /\ identifiers = << <<"t", "1">>, <<"t", " ", "2">> >>
    /\ rendered.name = <<"j">>
    /\ rendered.args = << <<"(", "t", "1", "|", "t", " ", "2", ")">> >>

\* C20: with the --version flag the program prints the version and exits
\* with 0, whatever the configuration is: nothing that main does before the
\* flag is looked at ends it with another code, and no plan request or
\* child process precedes the exit.
C20_VersionExitsZero ==
    (versionFlag /\ pc # "start") =>
        /\ exited
        /\ exitCode = 0
        /\ versionPrinted
        /\ \A c \in Calls : netAttempts[c] = 0
        /\ childStarts = 0

\* the position of a discovered file in the discovery order
PositionIn(f, fs) == CHOOSE i \in 1..Len(fs) : fs[i] = f

\* q holds files of fs, each once, in the order fs has them
InDiscoveryOrder(q, fs) ==
    /\ \A i \in 1..Len(q) : q[i] \in Range(fs)
    /\ \A i, k \in 1..Len(q) : i < k => PositionIn(q[i], fs) < PositionIn(q[k], fs)

\* C21: createRequestParam expands a file into examples only when splitting
\* by example is enabled and the file's duration is at least the slow-file
\* threshold, a file without a timing counting as 0. With splitting disabled
\* no timing request and no listing is made and Files is all files in
\* discovery order; with it enabled each file is either handed to
\* GetExamples or listed in Files, never both and never neither, in order,
\* and GetExamples is not called when no file is slow.
C21_SlowFilesSplit ==
    (pc = "params_done") =>
        /\ ~cfg.SplitByExample =>
             /\ timingRequests = 0
             /\ exampleListings = 0
             /\ slowFiles = <<>>
             /\ IsNil(callErr)
             /\ params = [files |-> files, examples |-> <<>>]
        /\ cfg.SplitByExample =>
             /\ timingRequests = 1
             /\ exampleListings = (IF slowFiles = <<>> THEN 0 ELSE 1)
             /\ \A f \in Range(slowFiles) :
                  f \in DOMAIN timings /\ timings[f] >= SlowFileThreshold
             /\ InDiscoveryOrder(slowFiles, files)
        /\ (cfg.SplitByExample /\ IsNil(callErr)) =>
             /\ \A f \in Range(files) :
                  /\ (f \in Range(slowFiles)) # (f \in Range(params.files))
                  /\ (f \in Range(slowFiles)) <=>
                       (f \in DOMAIN timings /\ timings[f] >= SlowFileThreshold)
             /\ Len(slowFiles) + Len(params.files) = Len(files)
             /\ InDiscoveryOrder(params.files, files)
             /\ \A i \in 1..Len(params.examples) :
                  params.examples[i].path \in Range(slowFiles)
             /\ \A f \in Range(slowFiles) :
                  \E i \in 1..Len(params.examples) : params.examples[i].path = f

C21_Witness ==
    /\ pc = "params_done"
    /\ cfg.SplitByExample
    /\ IsNil(callErr)
    /\ files = <<"a_spec.rb", "b_spec.rb">>
    /\ DOMAIN timings = {"b_spec.rb"}
    /\ timings["b_spec.rb"] = SlowFileThreshold
    /\ slowFiles = <<"b_spec.rb">>
    /\ params.files = <<"a_spec.rb">>
    /\ exampleListings = 1

IsPrefix(q, r) == Len(q) <= Len(r) /\ \A i \in 1..Len(q) : q[i] = r[i]

C22_Invariant ==
    /\ IsPrefix(timeline, TimelineWithRetries(cfg.MaxRetries))
    /\ \A i, k \in 1..Len(timeline) : i # k => timeline[i] # timeline[k]
    /\ \A i \in 1..Len(timeline) : \A k \in 1..(MaxRetriesCfg + 2) :
         timeline[i] = Marker(k, "end") => (i > 1 /\ timeline[i - 1] = Marker(k, "start"))
    /\ metadataSent > 0 => (InSeq("test_end", reported) /\ reported = timeline)

\* C22: the timeline is append-only and ordered: it is always a prefix of
\* test_start, test_end, retry_1_start, retry_1_end, ... up to attempt
\* MaxRetries, a step only appends to it, no entry occurs twice, every
\* retry_k_end directly follows retry_k_start, and the reported timeline
\* holds test_end.
C22_TimelineOrdered ==
    [](C22_Invariant) /\ [][IsPrefix(timeline, timeline')]_vars

C22_Witness ==
    /\ variant = "part_000"
    /\ metadataSent = 1
    /\ cfg.MaxRetries = 2
    /\ reported = <<"test_start", "test_end", "retry_1_start", "retry_1_end",
                    "retry_2_start", "retry_2_end">>
    /\ exitCode = 1

\* the child process that is alive
AliveChild ==
    IF pc = "running" THEN "primary"
    ELSE IF pc = "retry_running" THEN "retry"
    ELSE "none"

\* C23: the goroutine passes a signal on only while a child is alive, and to
\* the child that is alive then, a retry attempt's process as well as the
\* primary one.
C23_ForwardsToLiveChild ==
    [][forwardedSigs' # forwardedSigs => ForwardTarget = AliveChild]_vars

\* C24: the forwarding goroutine does not deadlock: once finishCh is closed
\* it unsubscribes and returns, pending signals or not, unless the process
\* has ended before.
C24_ForwarderStops ==
    (finishClosed > 0) ~> (forwarder = "stopped" \/ exited)

C24_Witness ==
    /\ finishClosed = 1
    /\ forwarder = "stopped"
    /\ sigCh # <<>>
    /\ ~exited

\* C25: the process ends with code 0 after the primary command started only
\* if the primary command or one of the retry attempts ended without error.
C25_ZeroOnlyAfterPass ==
    ((exited /\ exitCode = 0) \/ pc = "closed") =>
        \/ primaryExit.kind = "ok"
        \/ \E j \in 1..Len(retryExits) : retryExits[j].kind = "ok"

C25_Witness ==
    /\ exited
    /\ exitCode = 0
    /\ primaryExit.kind = "exit"
    /\ Len(retryExits) = 2
    /\ retryExits[1].kind = "waiterr"
    /\ retryExits[2].kind = "ok"

\* C26: FetchTestPlan's error matches ErrRetryLimitExceeded exactly when all
\* 5 attempts were made and every one failed with a retryable condition; a
\* call that a 4xx response ended never counts as retry-limit-exceeded.
C26_LimitIffFiveRetryableFailures ==
    pc = "fetch_done" =>
        (ErrorsIs(fetchResult.err, "limit") <=>
            /\ netAttempts["fetch"] = retryMaxAttempts
            /\ ~IsNil(fetchResult.err)
            /\ ~got4xx["fetch"])

\* C27: tryFetchTestPlan returns a plan and no error only for a response
\* with status 200; any other status gives an error and the empty plan.
C27_PlanOnlyFromStatusOK ==
    (lastResp.kind = "http" /\ lastResp.status # 200) =>
        /\ ~IsNil(tryResult.err)
        /\ tryResult.plan = EmptyPlan

\* C28: the test list of the primary command is the paths of the task the
\* plan holds under this worker's node index, in the plan's order; when the
\* plan holds no such task the list is empty, and main stops before the
\* child runs only if the command cannot be built or started.
C28_TestListIsNodeTask ==
    LET key == Itoa(cfg.NodeIndex)
    IN /\ childStarts >= 1 =>
            IF key \in DOMAIN testPlan.tasks
            THEN /\ Len(runnableTests) = Len(testPlan.tasks[key])
                 /\ \A i \in 1..Len(runnableTests) :
                        runnableTests[i] = testPlan.tasks[key][i].Path
            ELSE runnableTests = <<>>
       /\ (exited /\ IsNil(planErr)) =>
            exitMessage \in {"Couldn't process test command", "Couldn't start tests"}

\* the plan holds node 0 only, and worker 1 starts its command with no tests
C28_Witness ==
    /\ pc = "running"
    /\ childStarts = 1
    /\ DOMAIN testPlan.tasks = {"0"}
    /\ cfg.NodeIndex = 1
    /\ runnableTests = <<>>

====
